---- MODULE Spec2Model ----
(***************************************************************************)
(* ztd::text::execution (include/ztd/text/execution.hpp): the encoding of  *)
(* the C locale.  encode_one turns one code point into narrow code units   *)
(* and decode_one turns narrow code units into one code point, both through*)
(* the platform's conversion primitive and a caller-owned state object.    *)
(*                                                                         *)
(* The platform primitive is not part of the repository.  It is modelled   *)
(* by a small locale that shows every answer the code distinguishes:       *)
(*   "nul"    the null character (mbrtoc32 answers 0)                      *)
(*   "q"      a one-unit character ('?'); its code point depends on the    *)
(*            shift mode                                                   *)
(*   "lead"   j lead units followed by "q" make a (j+1)-unit character;    *)
(*            lead units alone are incomplete (-2)                         *)
(*   "bad"    never valid (-1)                                             *)
(*   "multi"  one unit that yields several code points (-3)                *)
(*   "shift"  toggles the shift mode; it is consumed together with the     *)
(*            character that follows it                                    *)
(* The CP_UTF8 branch of the Windows build hands the whole call to the     *)
(* UTF-8 encoding (lines 209-232, 405-429) and is not part of this model.  *)
(***************************************************************************)
EXTENDS Integers, Sequences, FiniteSets, TLC

(* MB_LEN_MAX of the modelled platform. *)
max_code_units == 3

(* Longest decode input, longest encode input, largest output capacities. *)
MaxUnits == 4
MaxPoints == 2
MaxPointRoom == 4
MaxUnitRoom == 4

Units == {"nul", "q", "lead", "bad", "multi", "shift"}

(* Code points: 0 is U+0000, 1 is "q" in shift mode 0, 2..max_code_units   *)
(* are the lead sequences, max_code_units+1 is "q" in shift mode 1 and the *)
(* three above it are the code points "multi" yields; those three have no  *)
(* narrow representation in the C locale.  On Windows max_code_units+2 is  *)
(* a supplementary code point, two 16-bit units wide (100+c and 200+c),    *)
(* which the code page writes as "multi".  The last code point is a lone   *)
(* surrogate: not a scalar value.                                          *)
Points == (0 .. (max_code_units + 4)) \cup {100 + max_code_units + 2}

ErrorCodes == {"ok", "invalid_sequence", "incomplete_sequence", "insufficient_output_space"}

Handlers == {"ignorable", "pass_through", "skip_handler"}

Platforms == {"posix", "windows"}

(* A pending entry that the primitive fails to deliver. *)
IsPoison(p) == p < 0

RECURSIVE SeqsUpTo(_, _)
SeqsUpTo(S, n) ==
    IF n = 0 THEN {<<>>}
    ELSE LET shorter == SeqsUpTo(S, n - 1)
         IN shorter \cup {Append(s, x) : s \in {t \in shorter : Len(t) = n - 1}, x \in S}

RECURSIVE Repeat(_, _)
Repeat(x, n) == IF n <= 0 THEN <<>> ELSE <<x>> \o Repeat(x, n - 1)

(***************************************************************************)
(* std::mbstate_t: the shift mode and the code points still to be handed   *)
(* out.  mbsinit is true of the initial conversion state.                  *)
(***************************************************************************)
InitialNarrowState == [shift |-> 0, pending |-> <<>>]

mbsinit(ns) == ns = InitialNarrowState

(* mbrtoc32 with pending output: hands out the next pending code point     *)
(* without consuming input; -3 while more remain.                          *)
mbrtoc32_pending(ns) ==
    IF ns.pending = <<>> \/ IsPoison(Head(ns.pending))
    THEN [res |-> -1, c32 |-> 0, stored |-> FALSE, state |-> ns]
    ELSE [res |-> IF Len(ns.pending) > 1 THEN -3 ELSE 1,
          c32 |-> Head(ns.pending), stored |-> TRUE,
          state |-> [ns EXCEPT !.pending = Tail(ns.pending)]]

(* The parse of the units buf[i..] in shift mode sh with leads lead units  *)
(* seen so far.  An incomplete attempt leaves in the state the shift       *)
(* sequences it consumed.                                                  *)
RECURSIVE ParseUnits(_, _, _, _, _)
ParseUnits(buf, i, sh, leads, ns) ==
    IF i > Len(buf)
    THEN [res |-> -2, c32 |-> 0, stored |-> FALSE, state |-> [ns EXCEPT !.shift = sh]]
    ELSE LET u == buf[i]
         IN CASE u = "lead" -> ParseUnits(buf, i + 1, sh, leads + 1, ns)
              [] u = "q" /\ leads > 0 ->
                    [res |-> i, c32 |-> 1 + leads, stored |-> TRUE,
                     state |-> [shift |-> sh, pending |-> <<>>]]
              [] u = "q" /\ leads = 0 ->
                    [res |-> i, c32 |-> IF sh = 0 THEN 1 ELSE max_code_units + 1,
                     stored |-> TRUE, state |-> [shift |-> sh, pending |-> <<>>]]
              [] u = "shift" /\ leads = 0 -> ParseUnits(buf, i + 1, 1 - sh, 0, ns)
              [] u = "nul" /\ leads = 0 ->
                    [res |-> 0, c32 |-> 0, stored |-> TRUE, state |-> InitialNarrowState]
              [] u = "multi" /\ leads = 0 ->
                    [res |-> -3, c32 |-> max_code_units + 2, stored |-> TRUE,
                     state |-> [shift |-> sh,
                                pending |-> IF sh = 0
                                            THEN <<max_code_units + 3, max_code_units + 4>>
                                            ELSE <<max_code_units + 3, -1>>]]
              [] OTHER -> [res |-> -1, c32 |-> 0, stored |-> FALSE, state |-> ns]

(* std::mbrtoc32(pc32, s, n, ps): buf are the n units at s (the empty      *)
(* sequence for the null probe).                                           *)
mbrtoc32(buf, ns) ==
    IF ns.pending # <<>> \/ buf = <<>>
    THEN mbrtoc32_pending(ns)
    ELSE ParseUnits(buf, 1, ns.shift, 0, ns)

(* std::c32rtomb(s, c32, ps). *)
c32rtomb(c32, ns) ==
    CASE c32 = 0 ->
            [res |-> 1 + ns.shift,
             units |-> (IF ns.shift = 1 THEN <<"shift">> ELSE <<>>) \o <<"nul">>,
             state |-> InitialNarrowState]
      [] c32 = 1 ->
            [res |-> 1 + ns.shift,
             units |-> (IF ns.shift = 1 THEN <<"shift">> ELSE <<>>) \o <<"q">>,
             state |-> [ns EXCEPT !.shift = 0]]
      [] c32 \in 2 .. max_code_units ->
            [res |-> c32, units |-> Repeat("lead", c32 - 1) \o <<"q">>, state |-> ns]
      [] c32 = max_code_units + 1 ->
            [res |-> 2 - ns.shift,
             units |-> (IF ns.shift = 0 THEN <<"shift">> ELSE <<>>) \o <<"q">>,
             state |-> [ns EXCEPT !.shift = 1]]
      [] OTHER -> [res |-> -1, units |-> <<>>, state |-> ns]

(***************************************************************************)
(* __decode_state and __encode_state after construction.                   *)
(***************************************************************************)
(* A decode state whose flag is left as it happens to be. *)
decode_state_unset ==
    [narrow_state |-> InitialNarrowState, output_pending |-> TRUE]

decode_state ==
    LET init_result == mbrtoc32(<<"nul">>, InitialNarrowState)
    IN [narrow_state |-> init_result.state, output_pending |-> FALSE]

encode_state ==
    LET init_result == c32rtomb(0, InitialNarrowState)
    IN [narrow_state |-> init_result.state, output_pending |-> FALSE]

(***************************************************************************)
(* Results.  An output range is what the call wrote into it and the room   *)
(* left in it; a view is the span handed to the error handler.             *)
(***************************************************************************)
Result(input, written, room, s, error_code) ==
    [input |-> input, written |-> written, room |-> room, state |-> s,
     error_code |-> error_code]

View(units, size) == [units |-> units, size |-> size]

call_error_handler(h) == h # "ignorable"

(* The caller's handler: pass_through hands the result back, skip_handler  *)
(* hands it back as a success.                                             *)
error_handler(h, r, view) ==
    IF h = "skip_handler" THEN [r EXCEPT !.error_code = "ok"] ELSE r

(* return _Result(...) *)
Return(r) ==
    {[ret |-> r, calls |-> <<>>, ub |-> "none"]}

(* A return that keeps the error code the call classified, whatever the   *)
(* handler answered.                                                       *)
ReturnHandledOverride(h, r, view) ==
    {[ret |-> [error_handler(h, r, view) EXCEPT !.error_code = r.error_code],
      calls |-> <<[result |-> r, view |-> view]>>, ub |-> "none"]}

(* return __error_handler(__self, _Result(...), span) *)
ReturnHandled(h, r, view) ==
    {[ret |-> error_handler(h, r, view),
      calls |-> <<[result |-> r, view |-> view]>>, ub |-> "none"]}

(* Undefined behaviour reached with the ranges and state r: the call may   *)
(* come back with any error code.                                          *)
Undefined(kind, r) ==
    {[ret |-> [r EXCEPT !.error_code = e], calls |-> <<>>, ub |-> kind] : e \in ErrorCodes}

(***************************************************************************)
(* decode_one, C standard library build (lines 431-453, 517-627).          *)
(***************************************************************************)

(* `*outit = c; outit = next(outit); return _Result(..., ok)` with the     *)
(* state s.  Without room the write lands past the end of the output.      *)
DecodeWriteReturn(init, room, s, c) ==
    IF room = 0
    THEN Undefined("write_past_end", Result(init, <<>>, room, s, "ok"))
    ELSE Return(Result(init, <<c>>, room - 1, s, "ok"))

(* Lines 434-438: an exhausted input. *)
DecodeEmptyInput(input, room, s) ==
    Return(Result(input, <<>>, room, s, "ok"))

(* Lines 443-451: an exhausted output. *)
DecodeNoRoom(input, room, h, s) ==
    ReturnHandled(h, Result(input, <<>>, room, s, "insufficient_output_space"),
                  View(<<>>, 0))

(* A drain that clears output_pending whatever the primitive answers. *)
DecodeDrainClears(init, room, h, s) ==
    LET p == mbrtoc32(<<>>, s.narrow_state)
        probed == [s EXCEPT !.narrow_state = p.state]
    IN IF call_error_handler(h) /\ p.res = -1
       THEN ReturnHandled(h, Result(init, <<>>, room, probed, "invalid_sequence"),
                          View(<<>>, 0))
       ELSE DecodeWriteReturn(init, room, [probed EXCEPT !.output_pending = FALSE], p.c32)

(* A drain that probes a copy of the state: the code point handed out     *)
(* stays pending.                                                          *)
DecodeDrainOnCopy(init, room, h, s) ==
    LET p == mbrtoc32(<<>>, s.narrow_state)
    IN IF call_error_handler(h) /\ p.res = -1
       THEN ReturnHandled(h, Result(init, <<>>, room, s, "invalid_sequence"),
                          View(<<>>, 0))
       ELSE DecodeWriteReturn(init, room, [s EXCEPT !.output_pending = (p.res = -3)], p.c32)

(* Lines 517-540: the drain of a pending code point. *)
DecodeDrain(init, room, h, s) ==
    LET p == mbrtoc32(<<>>, s.narrow_state)
        probed == [s EXCEPT !.narrow_state = p.state]
    IN IF call_error_handler(h) /\ p.res = -1
       THEN ReturnHandled(h, Result(init, <<>>, room, probed, "invalid_sequence"),
                          View(<<>>, 0))
       ELSE DecodeWriteReturn(init, room,
                              [probed EXCEPT !.output_pending = (p.res = -3)], p.c32)

(* Lines 610-626: after the loop. *)
DecodeAfterLoop(init, room, h, s, intermediary_input, state_count) ==
    IF call_error_handler(h)
    THEN ReturnHandled(h, Result(init, <<>>, room, s, "incomplete_sequence"),
                       View(intermediary_input, state_count))
    ELSE Undefined("no_return", Result(init, <<>>, room, s, "ok"))

(* An incomplete sequence reported with state_offset for the length of    *)
(* the view.                                                               *)
DecodeIncompleteByOffset(init, room, h, s, intermediary_input, state_count) ==
    ReturnHandled(h, Result(init, <<>>, room, s, "incomplete_sequence"),
                  View(SubSeq(intermediary_input, 1, state_count - 1), state_count - 1))

(* Lines 555-566: -2 with the input exhausted and a handler to call. *)
DecodeIncomplete(init, room, h, s, intermediary_input, state_count) ==
    ReturnHandled(h, Result(init, <<>>, room, s, "incomplete_sequence"),
                  View(intermediary_input, state_count))

(* The first of several code points written without the primitive's state *)
(* being committed.                                                        *)
DecodeFirstOfSeveralUncommitted(init, room, s, preserved_state, c) ==
    DecodeWriteReturn(init, room, [s EXCEPT !.output_pending = TRUE], c)

(* The first of several code points written and the state committed, the  *)
(* flag left as it was.                                                    *)
DecodeFirstOfSeveralUnflagged(init, room, s, preserved_state, c) ==
    DecodeWriteReturn(init, room, [s EXCEPT !.narrow_state = preserved_state], c)

(* Lines 568-576: -3, the first of several code points. *)
DecodeFirstOfSeveral(init, room, s, preserved_state, c) ==
    DecodeWriteReturn(init, room,
                      [narrow_state |-> preserved_state, output_pending |-> TRUE], c)

(* An invalid sequence reported with a view of its last unit only. *)
DecodeInvalidLastUnit(init, room, h, s, intermediary_input, state_count) ==
    ReturnHandled(h, Result(init, <<>>, room, s, "invalid_sequence"),
                  View(<<intermediary_input[state_count]>>, 1))

(* Lines 577-591: -1 with a handler to call. *)
DecodeInvalid(init, room, h, s, intermediary_input, state_count) ==
    ReturnHandled(h, Result(init, <<>>, room, s, "invalid_sequence"),
                  View(intermediary_input, state_count))

(* Lines 595-599: 0, the null character. *)
DecodeNull(init, room, s) ==
    Return(Result(init, <<>>, room, s, "ok"))

(* Lines 600-606: one code point. *)
DecodeOnePoint(init, room, s, preserved_state, c) ==
    DecodeWriteReturn(init, room, [s EXCEPT !.narrow_state = preserved_state], c)

RECURSIVE DecodeLoop(_, _, _, _, _, _)

(* A consume loop that hands the caller's state itself to the primitive,   *)
(* so that every attempt is committed.                                     *)
DecodeLoopCommitting(init, room, h, s, intermediary_input, state_offset) ==
    IF ~(state_offset < max_code_units)
    THEN DecodeAfterLoop(init, room, h, s, intermediary_input, state_offset + 1)
    ELSE IF init = <<>>
    THEN Undefined("read_past_end", Result(init, <<>>, room, s, "ok"))
    ELSE LET state_count == state_offset + 1
             buf == Append(intermediary_input, Head(init))
             rest == Tail(init)
             p == mbrtoc32(buf, s.narrow_state)
             committed == [s EXCEPT !.narrow_state = p.state]
         IN CASE p.res = -2 ->
                    IF call_error_handler(h) /\ rest = <<>>
                    THEN DecodeIncomplete(rest, room, h, committed, buf, state_count)
                    ELSE DecodeLoop(rest, room, h, committed, buf, state_offset + 1)
              [] p.res = -3 -> DecodeFirstOfSeveral(rest, room, s, p.state, p.c32)
              [] p.res = -1 ->
                    IF call_error_handler(h)
                    THEN DecodeInvalid(rest, room, h, committed, buf, state_count)
                    ELSE DecodeLoop(rest, room, h, committed, buf, state_offset + 1)
              [] p.res = 0 -> DecodeNull(rest, room, s)
              [] OTHER -> DecodeOnePoint(rest, room, s, p.state, p.c32)

(* Lines 542-609: the consume loop, entered with state_offset units in     *)
(* intermediary_input; state_count is state_offset + 1 throughout.         *)
DecodeLoop(init, room, h, s, intermediary_input, state_offset) ==
    IF ~(state_offset < max_code_units)
    THEN DecodeAfterLoop(init, room, h, s, intermediary_input, state_offset + 1)
    ELSE IF init = <<>>
    THEN Undefined("read_past_end", Result(init, <<>>, room, s, "ok"))
    ELSE LET state_count == state_offset + 1
             buf == Append(intermediary_input, Head(init))
             rest == Tail(init)
             p == mbrtoc32(buf, s.narrow_state)
         IN CASE p.res = -2 ->
                    IF call_error_handler(h) /\ rest = <<>>
                    THEN DecodeIncomplete(rest, room, h, s, buf, state_count)
                    ELSE DecodeLoop(rest, room, h, s, buf, state_offset + 1)
              [] p.res = -3 -> DecodeFirstOfSeveral(rest, room, s, p.state, p.c32)
              [] p.res = -1 ->
                    IF call_error_handler(h)
                    THEN DecodeInvalid(rest, room, h, s, buf, state_count)
                    ELSE DecodeLoop(rest, room, h, s, buf, state_offset + 1)
              [] p.res = 0 -> DecodeNull(rest, room, s)
              [] OTHER -> DecodeOnePoint(rest, room, s, p.state, p.c32)

(* decode_one with the output checked before the input, the order of the  *)
(* Windows encode_one.                                                     *)
decode_one_posix_room_first(input, room, h, s) ==
    IF call_error_handler(h) /\ room = 0
    THEN DecodeNoRoom(input, room, h, s)
    ELSE IF input = <<>>
    THEN DecodeEmptyInput(input, room, s)
    ELSE IF s.output_pending
    THEN DecodeDrain(input, room, h, s)
    ELSE DecodeLoop(input, room, h, s, <<>>, 0)

(* decode_one with the drain ahead of the test of the output. *)
decode_one_posix_drain_first(input, room, h, s) ==
    IF input = <<>>
    THEN DecodeEmptyInput(input, room, s)
    ELSE IF s.output_pending
    THEN DecodeDrain(input, room, h, s)
    ELSE IF call_error_handler(h) /\ room = 0
    THEN DecodeNoRoom(input, room, h, s)
    ELSE DecodeLoop(input, room, h, s, <<>>, 0)

decode_one_posix(input, room, h, s) ==
    IF input = <<>>
    THEN DecodeEmptyInput(input, room, s)
    ELSE IF call_error_handler(h) /\ room = 0
    THEN DecodeNoRoom(input, room, h, s)
    ELSE IF s.output_pending
    THEN DecodeDrain(input, room, h, s)
    ELSE DecodeLoop(input, room, h, s, <<>>, 0)

(***************************************************************************)
(* encode_one, C standard library build (lines 311-368).                   *)
(***************************************************************************)

(* Lines 314-318: an exhausted input. *)
EncodeEmptyInput(input, room, s) ==
    Return(Result(input, <<>>, room, s, "ok"))

(* Lines 323-331 (and 238-245): an exhausted output. *)
EncodeNoRoom(input, room, h, s) ==
    ReturnHandled(h, Result(input, <<>>, room, s, "insufficient_output_space"),
                  View(<<>>, 0))

(* An unrepresentable code point reported with an empty view, as the       *)
(* Windows build reports its conversion failures.                          *)
EncodeUnrepresentableEmptyView(init, room, h, s, codepoint) ==
    ReturnHandled(h, Result(init, <<>>, room, s, "invalid_sequence"), View(<<>>, 0))

(* Lines 338-347: the primitive answers -1 and there is a handler to call. *)
EncodeUnrepresentable(init, room, h, s, codepoint) ==
    ReturnHandled(h, Result(init, <<>>, room, s, "invalid_sequence"),
                  View(<<codepoint>>, 1))

(* An exhausted output reported with the partial copy rolled back. *)
EncodeCopyNoRoomRolledBack(init, written, room, h, s, codepoint) ==
    ReturnHandled(h, Result(init, <<>>, room + Len(written), s, "insufficient_output_space"),
                  View(<<codepoint>>, 1))

(* Lines 350-361: the output ends in the middle of the copy. *)
EncodeCopyNoRoom(init, written, room, h, s, codepoint) ==
    ReturnHandled(h, Result(init, written, room, s, "insufficient_output_space"),
                  View(<<codepoint>>, 1))

RECURSIVE EncodeCopy(_, _, _, _, _, _, _, _)

(* A copy loop that never advances intermediary_it, the loop of the        *)
(* Windows build.                                                          *)
EncodeCopyFirstUnit(init, written, room, h, s, codepoint, intermediary_output, i) ==
    IF i > Len(intermediary_output)
    THEN Return(Result(init, written, room, s, "ok"))
    ELSE IF room = 0
    THEN IF call_error_handler(h)
         THEN EncodeCopyNoRoom(init, written, room, h, s, codepoint)
         ELSE Undefined("write_past_end", Result(init, written, room, s, "ok"))
    ELSE EncodeCopy(init, Append(written, intermediary_output[1]), room - 1, h, s,
                    codepoint, intermediary_output, i + 1)

(* Lines 349-368: the copy of the units the primitive produced, from the   *)
(* i-th on, then the return.                                               *)
EncodeCopy(init, written, room, h, s, codepoint, intermediary_output, i) ==
    IF i > Len(intermediary_output)
    THEN Return(Result(init, written, room, s, "ok"))
    ELSE IF room = 0
    THEN IF call_error_handler(h)
         THEN EncodeCopyNoRoom(init, written, room, h, s, codepoint)
         ELSE Undefined("write_past_end", Result(init, written, room, s, "ok"))
    ELSE EncodeCopy(init, Append(written, intermediary_output[i]), room - 1, h, s,
                    codepoint, intermediary_output, i + 1)

(* With -1 taken for a count (no handler to call), the copy runs past the  *)
(* MB_LEN_MAX units of intermediary_output.                                *)
encode_one_posix(input, room, h, s) ==
    IF input = <<>>
    THEN EncodeEmptyInput(input, room, s)
    ELSE IF call_error_handler(h) /\ room = 0
    THEN EncodeNoRoom(input, room, h, s)
    ELSE LET codepoint == Head(input)
             init == Tail(input)
             p == c32rtomb(codepoint, s.narrow_state)
             converted == [s EXCEPT !.narrow_state = p.state]
         IN IF p.res = -1
            THEN IF call_error_handler(h)
                 THEN EncodeUnrepresentable(init, room, h, converted, codepoint)
                 ELSE Undefined("copy_past_buffer", Result(init, <<>>, room, converted, "ok"))
            ELSE EncodeCopy(init, <<>>, room, h, converted, codepoint, p.units, 1)

(***************************************************************************)
(* The 16-bit bridge of the Windows build: the UTF-16 encoding over wchar_t *)
(* and the code page's buffer conversions.                                 *)
(***************************************************************************)
IsSurrogate(w) == w >= 100

IsSupplementary(c) == c = max_code_units + 2

WideOf(c) == IF IsSupplementary(c) THEN <<100 + c, 200 + c>> ELSE <<c>>

(* __utf16_with<void, wchar_t, false>::encode_one on the code points input *)
(* with room wide units of output; checked is false for an ignorable       *)
(* handler.  progress is what the progress handler recorded.               *)
utf16_encode_one(input, room, checked) ==
    LET Out(e, in, w, r, pr, u) ==
            [error_code |-> e, input |-> in, written |-> w, room |-> r,
             progress |-> pr, ub |-> u]
    IN IF input = <<>> THEN Out("ok", input, <<>>, room, <<>>, "none")
       ELSE IF room = 0
       THEN IF checked
            THEN Out("insufficient_output_space", input, <<>>, room, <<>>, "none")
            ELSE Out("ok", Tail(input), <<>>, room, <<>>, "write_past_end")
       ELSE LET c == Head(input)
                units == IF IsSurrogate(c) THEN <<c>> ELSE WideOf(c)
            IN IF checked /\ IsSurrogate(c)
               THEN Out("invalid_sequence", Tail(input), <<>>, room, <<c>>, "none")
               ELSE IF Len(units) <= room
               THEN Out("ok", Tail(input), units, room - Len(units), <<>>, "none")
               ELSE IF checked
               THEN Out("insufficient_output_space", Tail(input), <<units[1]>>, room - 1,
                        <<c>>, "none")
               ELSE Out("ok", Tail(input), <<units[1]>>, room - 1, <<>>, "write_past_end")

(* ::WideCharToMultiByte(code page, WC_ERR_INVALID_CHARS, wide, ...,        *)
(* replacement_code_units, &used_default_char): 0 is the failure.          *)
WideCharToMultiByte(wide) ==
    CASE wide = <<>> -> [res |-> 0, units |-> <<>>, error |-> "invalid_parameter"]
      [] Len(wide) = 2 /\ wide[1] = 100 + max_code_units + 2
                       /\ wide[2] = 200 + max_code_units + 2 ->
            [res |-> 1, units |-> <<"multi">>, error |-> "none"]
      [] IsSurrogate(wide[1]) ->
            [res |-> 0, units |-> <<>>, error |-> "no_unicode_translation"]
      [] wide[1] \in 0 .. max_code_units ->
            LET p == c32rtomb(wide[1], InitialNarrowState)
            IN [res |-> p.res, units |-> p.units, error |-> "none"]
      [] OTHER -> [res |-> 1, units |-> <<"q">>, error |-> "none"]

(* ::MultiByteToWideChar(code page, MB_ERR_INVALID_CHARS, buf, n, wide, 4). *)
MultiByteToWideChar(buf) ==
    LET p == ParseUnits(buf, 1, 0, 0, InitialNarrowState)
    IN CASE \E i \in 1 .. Len(buf) : buf[i] = "shift" ->
                [res |-> 0, wide |-> <<>>, error |-> "invalid_flags"]
         [] p.res = -2 -> [res |-> 0, wide |-> <<>>, error |-> "no_unicode_translation"]
         [] p.res = -1 -> [res |-> 0, wide |-> <<>>, error |-> "invalid_flags"]
         [] p.res = -3 ->
                [res |-> 2, wide |-> WideOf(max_code_units + 2), error |-> "none"]
         [] OTHER -> [res |-> 1, wide |-> <<p.c32>>, error |-> "none"]

(***************************************************************************)
(* encode_one, Windows build (lines 234-308).                              *)
(***************************************************************************)

(* Lines 288-308: the copy loop with res units still to write. *)
RECURSIVE EncodeCopyWindows(_, _, _, _, _, _, _, _, _)
EncodeCopyWindows(init, written, room, h, s, points, intermediary_output, res, error_code) ==
    IF ~(res > 0)
    THEN Return(Result(init, written, room, s, error_code))
    ELSE IF room = 0
    THEN IF call_error_handler(h)
         THEN ReturnHandled(h, Result(init, written, room, s, "insufficient_output_space"),
                            View(points, Len(points)))
         ELSE Undefined("write_past_end", Result(init, written, room, s, error_code))
    ELSE EncodeCopyWindows(init, Append(written, intermediary_output[1]), room - 1, h, s,
                           points, intermediary_output, res - 1, error_code)

encode_one_windows(input, room, h, s) ==
    IF call_error_handler(h) /\ room = 0
    THEN EncodeNoRoom(input, room, h, s)
    ELSE LET ir == utf16_encode_one(input, 8, call_error_handler(h))
         IN IF call_error_handler(h) /\ ir.error_code # "ok"
            THEN ReturnHandled(h, Result(ir.input, <<>>, room, s, ir.error_code),
                               View(ir.progress, Len(ir.progress)))
            ELSE LET w == WideCharToMultiByte(ir.written)
                 IN IF call_error_handler(h) /\ w.res = 0
                    THEN ReturnHandled(h,
                            Result(ir.input, <<>>, room, s,
                                   IF w.error = "insufficient_buffer"
                                   THEN "insufficient_output_space"
                                   ELSE "invalid_sequence"),
                            View(ir.progress, Len(ir.progress)))
                    ELSE EncodeCopyWindows(ir.input, <<>>, room, h, s, ir.progress,
                                           w.units, w.res, ir.error_code)

(***************************************************************************)
(* decode_one, Windows build (lines 431-515, 610-627).                     *)
(***************************************************************************)
RECURSIVE DecodeLoopWindows(_, _, _, _, _, _)
DecodeLoopWindows(init, room, h, s, intermediary_input, state_count) ==
    IF ~(state_count < max_code_units)
    THEN DecodeAfterLoop(init, room, h, s, intermediary_input, state_count)
    ELSE LET m == MultiByteToWideChar(intermediary_input)
             ir == utf16_encode_one(m.wide, room, call_error_handler(h))
         IN IF m.res = 0 /\ m.error = "no_unicode_translation"
            THEN IF call_error_handler(h) /\ init = <<>>
                 THEN DecodeIncomplete(init, room, h, s, intermediary_input, state_count)
                 ELSE IF init = <<>>
                 THEN Undefined("read_past_end", Result(init, <<>>, room, s, "ok"))
                 ELSE DecodeLoopWindows(Tail(init), room, h, s,
                                        Append(intermediary_input, Head(init)),
                                        state_count + 1)
            ELSE IF m.res = 0 /\ call_error_handler(h)
            THEN DecodeInvalid(init, room, h, s, intermediary_input, state_count)
            ELSE IF call_error_handler(h) /\ ir.error_code # "ok"
            THEN ReturnHandled(h, Result(init, ir.written, ir.room, s, ir.error_code),
                               View(intermediary_input, state_count))
            ELSE IF ir.ub # "none"
            THEN Undefined(ir.ub, Result(init, ir.written, ir.room, s, ir.error_code))
            ELSE Return(Result(init, ir.written, ir.room, s, ir.error_code))

decode_one_windows(input, room, h, s) ==
    IF input = <<>>
    THEN DecodeEmptyInput(input, room, s)
    ELSE IF call_error_handler(h) /\ room = 0
    THEN DecodeNoRoom(input, room, h, s)
    ELSE DecodeLoopWindows(Tail(input), room, h, s, <<Head(input)>>, 1)

(***************************************************************************)
(* The two operations as built for a platform.                             *)
(***************************************************************************)
encode_one(platform, input, room, h, s) ==
    IF platform = "windows"
    THEN encode_one_windows(input, room, h, s)
    ELSE encode_one_posix(input, room, h, s)

decode_one(platform, input, room, h, s) ==
    IF platform = "windows"
    THEN decode_one_windows(input, room, h, s)
    ELSE decode_one_posix(input, room, h, s)

(***************************************************************************)
(* The caller.  A session either encodes the code points e_in into e_out   *)
(* and then decodes what it wrote, or decodes the units d_in; every call   *)
(* continues with the ranges and the state the previous call returned.     *)
(* last is the most recent call: its arguments, what it returned, the      *)
(* handler invocations it made and the undefined behaviour it ran into.    *)
(***************************************************************************)
VARIABLES platform, handler, stage, source, clean, e_calls, d_calls,
          e_in, e_out, e_room, e_state,
          d_in, d_out, d_room, d_state, last

vars == <<platform, handler, stage, source, clean, e_calls, d_calls,
          e_in, e_out, e_room, e_state,
          d_in, d_out, d_room, d_state, last>>

(* The calls made so far are counted as none, one or several. *)
Counted(n) == IF n < 2 THEN n + 1 ELSE n

NoCall ==
    [op |-> "none", input |-> <<>>, room |-> 0, state |-> decode_state,
     ret |-> Result(<<>>, <<>>, 0, decode_state, "ok"), calls |-> <<>>, ub |-> "none"]

Call(op, input, room, s, outcome) ==
    [op |-> op, input |-> input, room |-> room, state |-> s,
     ret |-> outcome.ret, calls |-> outcome.calls, ub |-> outcome.ub]

Init ==
    /\ platform \in Platforms
    /\ handler \in Handlers
    /\ \/ /\ stage = "encode"
          /\ e_in \in SeqsUpTo(Points, MaxPoints)
          /\ e_room \in 0 .. MaxUnitRoom
          /\ d_in = <<>>
       \/ /\ stage = "decode"
          /\ e_in = <<>>
          /\ e_room = 0
          /\ d_in \in SeqsUpTo(Units, MaxUnits)
    /\ d_room \in 0 .. MaxPointRoom
    /\ source = e_in
    /\ clean = TRUE
    /\ e_calls = 0
    /\ d_calls = 0
    /\ e_out = <<>>
    /\ d_out = <<>>
    /\ e_state = encode_state
    /\ d_state = decode_state
    /\ last = NoCall

(* encode_one(e_in, e_out's room, handler, e_state) *)
EncodeOne ==
    /\ stage = "encode"
    /\ \E outcome \in encode_one(platform, e_in, e_room, handler, e_state) :
          /\ last' = Call("encode", e_in, e_room, e_state, outcome)
          /\ e_in' = outcome.ret.input
          /\ e_out' = e_out \o outcome.ret.written
          /\ e_room' = outcome.ret.room
          /\ e_state' = outcome.ret.state
          /\ clean' = (clean /\ outcome.calls = <<>> /\ outcome.ub = "none")
    /\ e_calls' = Counted(e_calls)
    /\ UNCHANGED <<platform, handler, stage, source, d_calls, d_in, d_out, d_room, d_state>>

(* decode_one(d_in, d_out's room, handler, d_state) *)
DecodeOne ==
    /\ stage = "decode"
    /\ \E outcome \in decode_one(platform, d_in, d_room, handler, d_state) :
          /\ last' = Call("decode", d_in, d_room, d_state, outcome)
          /\ d_in' = outcome.ret.input
          /\ d_out' = d_out \o outcome.ret.written
          /\ d_room' = outcome.ret.room
          /\ d_state' = outcome.ret.state
          /\ clean' = (clean /\ outcome.calls = <<>> /\ outcome.ub = "none")
    /\ d_calls' = Counted(d_calls)
    /\ UNCHANGED <<platform, handler, stage, source, e_calls, e_in, e_out, e_room, e_state>>

(* The round trip: once the code points are encoded, the units written     *)
(* become the input of the decoder.                                        *)
Pipe ==
    /\ stage = "encode"
    /\ last.op = "encode"
    /\ e_in = <<>>
    /\ stage' = "decode"
    /\ d_in' = e_out
    /\ UNCHANGED <<platform, handler, source, clean, e_calls, d_calls,
                   e_in, e_out, e_room, e_state, d_out, d_room, d_state, last>>

Next == EncodeOne \/ DecodeOne \/ Pipe

Spec == Init /\ [][Next]_vars

(***************************************************************************)
(* What the claims speak of.                                               *)
(***************************************************************************)
Encoded == last.op = "encode"
Decoded == last.op = "decode"

(* The handler was invoked by the last call. *)
Handled == last.calls # <<>>

(* The error the last call classified: the one it gave to the handler or,  *)
(* without a handler invocation, the one it returned; and the result that  *)
(* carried it.                                                             *)
Reported == IF Handled THEN last.calls[1].result ELSE last.ret

(* The code points the C locale's encode primitive can represent. *)
Representable(c) == c32rtomb(c, InitialNarrowState).res # -1

(* C1: round trip.  For every representable code point c (U+0000 included),*)
(* with fresh states and enough room, one encode_one of <<c>> followed by  *)
(* one decode_one of the units it wrote returns ok, consumes all those     *)
(* units and writes exactly c, and no handler is invoked.  Stated for the  *)
(* C standard library build.                                               *)
C1_RoundTrip ==
    (/\ platform = "posix"
     /\ Decoded /\ e_calls = 1 /\ d_calls = 1
     /\ Len(source) = 1 /\ Representable(source[1])
     /\ Len(e_out) + e_room >= max_code_units
     /\ last.room >= 1)
    => (/\ clean
        /\ last.input = e_out
        /\ last.ret.error_code = "ok"
        /\ last.ret.input = <<>>
        /\ last.ret.written = <<source[1]>>)

(* The round trip of C1 for the code points other than U+0000. *)
RoundTripNonNull ==
    (/\ platform = "posix"
     /\ Decoded /\ e_calls = 1 /\ d_calls = 1
     /\ Len(source) = 1 /\ Representable(source[1]) /\ source[1] # 0
     /\ Len(e_out) + e_room >= max_code_units
     /\ last.room >= 1)
    => (/\ clean
        /\ last.input = e_out
        /\ last.ret.error_code = "ok"
        /\ last.ret.input = <<>>
        /\ last.ret.written = <<source[1]>>)

(* C2: decode_one on an empty input returns ok without invoking the        *)
(* handler, consumes nothing, writes nothing and leaves the decode state   *)
(* as it was, whatever the state (output_pending included) and the output  *)
(* (an empty one included).                                                *)
C2_DecodeEmptyInput ==
    (Decoded /\ last.input = <<>>)
    => (/\ last.ret.error_code = "ok"
        /\ ~Handled
        /\ last.ub = "none"
        /\ last.ret.input = <<>>
        /\ last.ret.written = <<>>
        /\ last.ret.room = last.room
        /\ last.ret.state = last.state)

(* A decode_one call on an empty input with a code point pending and no    *)
(* room in the output.                                                     *)
C2_Witness ==
    /\ Decoded /\ last.input = <<>>
    /\ last.state.output_pending
    /\ last.room = 0
    /\ d_state.output_pending

(* C3: encode_one on an empty input returns ok with nothing consumed and   *)
(* nothing written and without invoking the handler, also when the output  *)
(* is empty, in the C standard library build and in the Windows build.     *)
C3_EncodeEmptyInput ==
    (Encoded /\ last.input = <<>>)
    => (/\ last.ret.error_code = "ok"
        /\ ~Handled
        /\ last.ret.input = <<>>
        /\ last.ret.written = <<>>
        /\ last.ret.room = last.room)

(* C4: encode_one with a zero-length output fails with                     *)
(* insufficient_output_space and leaves the input untouched, for every     *)
(* input and every kind of handler.  Stated for the C standard library     *)
(* build and for the inputs that hold a code point.                        *)
C4_EncodeNoRoom ==
    (platform = "posix" /\ Encoded /\ last.room = 0 /\ last.input # <<>>)
    => (/\ Reported.error_code = "insufficient_output_space"
        /\ Reported.input = last.input)

(* The primitive's answer to the first n units of input. *)
Answer(input, n, ns) ==
    IF platform = "windows"
    THEN LET m == MultiByteToWideChar(SubSeq(input, 1, n))
         IN IF m.res # 0 THEN 1 ELSE IF m.error = "no_unicode_translation" THEN -2 ELSE -1
    ELSE mbrtoc32(SubSeq(input, 1, n), ns).res

(* The number of units after which the primitive stops answering           *)
(* "incomplete", counted from n; Len(input) + 1 when it never does.        *)
RECURSIVE Settles(_, _, _)
Settles(input, n, ns) ==
    IF n > Len(input) THEN n
    ELSE IF Answer(input, n, ns) # -2 THEN n
    ELSE Settles(input, n + 1, ns)

(* The last call was a decode_one that went into the consume loop. *)
Consuming ==
    /\ Decoded /\ last.input # <<>>
    /\ ~last.state.output_pending
    /\ (call_error_handler(handler) => last.room > 0)

(* The primitive classifies the units the consume loop accumulates as      *)
(* invalid: incomplete for the shorter prefixes, then -1.                  *)
ClassifiedInvalid ==
    LET n == Settles(last.input, 1, last.state.narrow_state)
    IN /\ n <= Len(last.input) /\ n <= max_code_units
       /\ Answer(last.input, n, last.state.narrow_state) = -1

(* C5: with an ignorable handler, decode_one on input whose accumulated    *)
(* units the primitive classifies as invalid returns invalid_sequence and  *)
(* writes nothing.  Stated for the C standard library build and an output  *)
(* with room.                                                              *)
C5_IgnorableInvalid ==
    (/\ platform = "posix" /\ handler = "ignorable"
     /\ Consuming /\ last.room > 0 /\ ClassifiedInvalid)
    => (/\ last.ret.error_code = "invalid_sequence"
        /\ last.ret.written = <<>>)

C7_HandlerVerbatim ==
    /\ Len(last.calls) <= 1
    /\ Handled =>
         /\ last.ret = error_handler(handler, last.calls[1].result, last.calls[1].view)
         /\ last.ub = "none"
         /\ (Encoded => e_state = last.ret.state /\ e_in = last.ret.input)
         /\ (Decoded => d_state = last.ret.state /\ d_in = last.ret.input)

(* A handler that answered ok to an error, and the call returned ok. *)
C7_Witness ==
    /\ Handled
    /\ handler = "skip_handler"
    /\ last.calls[1].result.error_code # "ok"
    /\ last.ret.error_code = "ok"

(* The primitive answers 0, the null character, to the accumulated units. *)
NullReported ==
    LET n == Settles(last.input, 1, last.state.narrow_state)
    IN n <= Len(last.input) /\ Answer(last.input, n, last.state.narrow_state) = 0

(* C8: a decode_one call on a non-empty input with room in the output that *)
(* returns ok without invoking the handler advances the output by exactly  *)
(* one written code point; for the null character that code point is       *)
(* U+0000.  Stated for the C standard library build.                       *)
C8_DecodeWritesOne ==
    (/\ platform = "posix" /\ Decoded
     /\ last.input # <<>> /\ last.room > 0
     /\ last.ret.error_code = "ok" /\ ~Handled /\ last.ub = "none")
    => (/\ Len(last.ret.written) = 1
        /\ last.ret.room = last.room - 1
        /\ (~last.state.output_pending /\ NullReported => last.ret.written = <<0>>))

(* What a drain does: no input consumed, the pending code point written,   *)
(* ok returned, output_pending kept exactly when the primitive answers -3. *)
Drained ==
    LET p == mbrtoc32(<<>>, last.state.narrow_state)
    IN /\ last.ret.input = last.input
       /\ last.ret.written = <<p.c32>>
       /\ last.ret.room = last.room - 1
       /\ last.ret.error_code = "ok"
       /\ ~Handled
       /\ last.ret.state.output_pending = (p.res = -3)

C10_ErrorLeavesRanges ==
    (/\ platform = "posix" /\ (Encoded \/ Decoded)
     /\ last.ub = "none" /\ Reported.error_code # "ok")
    => (/\ Reported.input = last.input
        /\ Reported.written = <<>>
        /\ Reported.room = last.room)

C13_FreshStates ==
    /\ e_calls = 0 => (mbsinit(e_state.narrow_state) /\ ~e_state.output_pending)
    /\ d_calls = 0 => (mbsinit(d_state.narrow_state) /\ ~d_state.output_pending)

(* A decode state not yet used, after the encoder has run. *)
C13_Witness ==
    /\ stage = "decode" /\ d_calls = 0 /\ e_calls > 0
    /\ d_in # <<>>
    /\ mbsinit(d_state.narrow_state)

(* C14: the consume loop commits the shift state only with a code point:   *)
(* a call that ends with incomplete_sequence or invalid_sequence hands the *)
(* handler the shift state and the output_pending of the call's entry,     *)
(* however many incomplete attempts came first.                            *)
C14_StateUncommitted ==
    (/\ Consuming /\ Handled
     /\ last.calls[1].result.error_code \in {"incomplete_sequence", "invalid_sequence"})
    => (/\ last.calls[1].result.state = last.state
        /\ d_state = last.state)

(* An invalid sequence found after an attempt that consumed a shift        *)
(* sequence.                                                               *)
C14_Witness ==
    /\ Consuming /\ Handled
    /\ platform = "posix"
    /\ last.calls[1].result.error_code = "invalid_sequence"
    /\ last.calls[1].view.size >= 2
    /\ last.input[1] = "shift"
    /\ last.calls[1].result.state = last.state

(* C15: when the primitive reports the first of several code points for    *)
(* the accumulated units, decode_one writes that code point alone,         *)
(* commits the primitive's shift state, sets output_pending and returns ok *)
(* with the input advanced past exactly the units consumed.  Stated for    *)
(* an output with room for the code point.                                 *)
C15_FirstOfSeveral ==
    (/\ platform = "posix" /\ Consuming /\ last.room > 0
     /\ Settles(last.input, 1, last.state.narrow_state) <= Len(last.input)
     /\ Settles(last.input, 1, last.state.narrow_state) <= max_code_units
     /\ Answer(last.input, Settles(last.input, 1, last.state.narrow_state),
               last.state.narrow_state) = -3)
    => LET n == Settles(last.input, 1, last.state.narrow_state)
           p == mbrtoc32(SubSeq(last.input, 1, n), last.state.narrow_state)
       IN /\ ~Handled /\ last.ub = "none"
          /\ last.ret.error_code = "ok"
          /\ last.ret.written = <<p.c32>>
          /\ last.ret.room = last.room - 1
          /\ last.ret.input = SubSeq(last.input, n + 1, Len(last.input))
          /\ last.ret.state = [narrow_state |-> p.state, output_pending |-> TRUE]
          /\ d_state = last.ret.state

(* The first of several code points decoded from two units, more input     *)
(* behind them.                                                            *)
C15_Witness ==
    /\ platform = "posix" /\ Consuming /\ last.room > 0
    /\ Len(last.input) > 2
    /\ Settles(last.input, 1, last.state.narrow_state) = 2
    /\ Answer(last.input, 2, last.state.narrow_state) = -3
    /\ last.ret.state.output_pending
    /\ last.ret.state.narrow_state.pending # <<>>
    /\ Len(last.ret.written) = 1

EncodeSucceeded ==
    /\ Encoded /\ last.input # <<>>
    /\ ~Handled /\ last.ub = "none"
    /\ last.ret.error_code = "ok"

(* C17: in the C standard library build a successful encode_one consumes   *)
(* exactly one code point and writes exactly the units the primitive       *)
(* produced for it, in order and nothing else, the output advanced by      *)
(* their count, at most max_code_units.                                    *)
C17_EncodeWritesUnits ==
    (platform = "posix" /\ EncodeSucceeded)
    => LET p == c32rtomb(Head(last.input), last.state.narrow_state)
       IN /\ last.ret.input = Tail(last.input)
          /\ p.res = Len(p.units)
          /\ last.ret.written = p.units
          /\ last.ret.room = last.room - Len(p.units)
          /\ Len(last.ret.written) <= max_code_units

(* A code point encoded as max_code_units different units. *)
C17_Witness ==
    /\ platform = "posix" /\ EncodeSucceeded
    /\ Len(last.ret.written) = max_code_units
    /\ last.ret.written[1] # last.ret.written[max_code_units]
    /\ last.ret.written = c32rtomb(Head(last.input), last.state.narrow_state).units

(* C18: in the Windows build a successful encode_one writes exactly the    *)
(* narrow units the platform's buffer conversion produced, each once and   *)
(* in order, the output advanced by their count.                           *)
C18_BridgeWritesUnits ==
    (platform = "windows" /\ EncodeSucceeded)
    => LET wide == utf16_encode_one(last.input, 8, call_error_handler(handler)).written
           p == WideCharToMultiByte(wide)
       IN /\ last.ret.written = p.units
          /\ last.ret.room = last.room - Len(p.units)

C20_IncompleteView ==
    (/\ platform = "posix" /\ call_error_handler(handler) /\ Consuming
     /\ Len(last.input) > max_code_units
     /\ Settles(last.input, 1, last.state.narrow_state) > max_code_units)
    => (/\ Len(last.calls) = 1
        /\ last.calls[1].result.error_code = "incomplete_sequence"
        /\ last.calls[1].view.size <= max_code_units
        /\ last.calls[1].view = View(SubSeq(last.input, 1, max_code_units), max_code_units))

(* The number of times x occurs in seq. *)
Occurrences(seq, x) == Cardinality({i \in 1 .. Len(seq) : seq[i] = x})

(* The last call was a drain in which the primitive handed out the last    *)
(* pending code point.                                                     *)
FullyDrained ==
    /\ platform = "posix" /\ Decoded
    /\ last.input # <<>> /\ last.room > 0
    /\ last.state.output_pending
    /\ mbrtoc32(<<>>, last.state.narrow_state).res \notin {-3, -1}

(* Every drain writes the head of what is pending and leaves the rest. *)
DrainWritesHead ==
    (/\ platform = "posix" /\ Decoded /\ last.input # <<>> /\ last.room > 0
     /\ last.state.output_pending
     /\ mbrtoc32(<<>>, last.state.narrow_state).res # -1)
    => (/\ last.ret.written = <<Head(last.state.narrow_state.pending)>>
        /\ d_state.narrow_state.pending = Tail(last.state.narrow_state.pending))

(* No pending code point is in the output more often than the code point   *)
(* whose decoding left it pending.                                         *)
NoneWrittenTwice ==
    platform = "posix"
    => (/\ Occurrences(d_out, max_code_units + 3) <= Occurrences(d_out, max_code_units + 2)
        /\ Occurrences(d_out, max_code_units + 4) <= Occurrences(d_out, max_code_units + 3))

(* The call after a full drain, on a non-empty input with room in the      *)
(* output, consumes at least one unit and drains nothing.                  *)
ConsumesAfterDrain ==
    (/\ FullyDrained /\ d_in # <<>> /\ d_room > 0
     /\ last'.op = "decode" /\ last'.input = d_in /\ last'.state = d_state)
    => (/\ Len(d_in') < Len(d_in)
        /\ Occurrences(d_out', max_code_units + 4) = Occurrences(d_out, max_code_units + 4))

(* C21: after a drain in which the primitive reports no further pending    *)
(* output, output_pending is false and the next decode_one call on a       *)
(* non-empty input runs the consume loop, consuming at least one unit;     *)
(* over any sequence of calls no pending code point is written twice.      *)
C21_NoDoubleDrain ==
    /\ [](FullyDrained => (~d_state.output_pending /\ d_state.narrow_state.pending = <<>>))
    /\ [](DrainWritesHead /\ NoneWrittenTwice)
    /\ [][ConsumesAfterDrain]_vars

(* A call that consumed input right after the last pending code point was  *)
(* drained.                                                                *)
C21_Witness ==
    /\ platform = "posix" /\ Decoded
    /\ Occurrences(d_out, max_code_units + 2) = 1
    /\ Occurrences(d_out, max_code_units + 3) = 1
    /\ Occurrences(d_out, max_code_units + 4) = 1
    /\ ~last.state.output_pending
    /\ last.input # <<>> /\ last.room > 0
    /\ Len(last.ret.input) < Len(last.input)
    /\ Len(d_out) = 4

(* The code point of the narrow sequence made of the first n units of      *)
(* input, as the platform's primitive converts it.                         *)
PointOf(input, n, ns) ==
    IF platform = "windows"
    THEN LET m == MultiByteToWideChar(SubSeq(input, 1, n))
         IN IF Len(m.wide) = 2 THEN max_code_units + 2 ELSE m.wide[1]
    ELSE mbrtoc32(SubSeq(input, 1, n), ns).c32

(* The input of the last call starts with a narrow sequence of exactly n   *)
(* units, all present: shorter prefixes are incomplete, the n units are a  *)
(* character.                                                              *)
StartsWithSequence ==
    LET n == Settles(last.input, 1, last.state.narrow_state)
    IN /\ n <= Len(last.input) /\ n <= max_code_units
       /\ Answer(last.input, n, last.state.narrow_state) \notin {-2, -1}

(* C22: for every k with 1 <= k <= max_code_units, when output_pending is  *)
(* false and the input starts with a narrow sequence of exactly k units,   *)
(* all present, decode_one returns ok having consumed exactly those k      *)
(* units and written the sequence's code point, in both builds.            *)
C22_DecodesKUnits ==
    (Consuming /\ last.room > 0 /\ StartsWithSequence)
    => LET n == Settles(last.input, 1, last.state.narrow_state)
       IN /\ last.ret.error_code = "ok"
          /\ ~Handled /\ last.ub = "none"
          /\ last.ret.input = SubSeq(last.input, n + 1, Len(last.input))
          /\ last.ret.written = <<PointOf(last.input, n, last.state.narrow_state)>>

(* C23: decode_one on a non-empty input with an empty output and a         *)
(* non-ignorable handler calls the handler with insufficient_output_space  *)
(* and an empty view, no input consumed and the decode state unchanged;    *)
(* with output_pending true as well, the pending code point being kept.    *)
C23_DecodeNoRoom ==
    (/\ Decoded /\ call_error_handler(handler)
     /\ last.input # <<>> /\ last.room = 0)
    => (/\ Len(last.calls) = 1
        /\ last.calls[1].result.error_code = "insufficient_output_space"
        /\ last.calls[1].view = View(<<>>, 0)
        /\ last.calls[1].result.input = last.input
        /\ last.calls[1].result.written = <<>>
        /\ last.calls[1].result.state = last.state
        /\ last.ret.input = last.input
        /\ last.ret.written = <<>>
        /\ d_state = last.state)

(* An exhausted output reported while a code point is pending. *)
C23_Witness ==
    /\ Decoded /\ Handled
    /\ last.input # <<>> /\ last.room = 0
    /\ last.state.output_pending
    /\ last.state.narrow_state.pending # <<>>
    /\ last.calls[1].result.error_code = "insufficient_output_space"
    /\ d_state.output_pending
    /\ d_state.narrow_state.pending = last.state.narrow_state.pending

(* The caller's decode loop has come to its end: every call so far had     *)
(* room in the output and returned ok without the handler, and the input   *)
(* is now empty.                                                           *)
DecodeLoopEnded ==
    /\ stage = "decode" /\ Decoded /\ clean
    /\ last.ret.error_code = "ok"
    /\ last.room > 0
    /\ d_in = <<>>

(* C24: in a caller loop that calls decode_one on the remaining input,     *)
(* with room in the output, until the input is empty, every code point     *)
(* left pending is written by a later call: the loop never ends with       *)
(* output_pending = true.                                                  *)
C24_LoopDrainsAll ==
    DecodeLoopEnded => ~d_state.output_pending

(* C25: for every kind of handler, the ignorable one included, encode_one  *)
(* and decode_one never read an input element at or past the end of the    *)
(* input, never write an output element at or past the end of the output,  *)
(* and encode_one copies at most max_code_units units per call.            *)
C25_InBounds ==
    (Encoded \/ Decoded)
    => (/\ last.ub \notin {"read_past_end", "write_past_end", "copy_past_buffer"}
        /\ (Encoded => Len(last.ret.written) <= max_code_units))

(* C26: in a caller loop with room in the output, every decode_one call on *)
(* a non-empty input that returns ok either consumed at least one unit or  *)
(* drained one pending code point, so that the loop terminates, and no     *)
(* call goes through more than max_code_units units, one per invocation of *)
(* the primitive.                                                          *)
C26_LoopProgress ==
    (/\ Decoded /\ last.input # <<>> /\ last.room > 0
     /\ last.ret.error_code = "ok")
    => (/\ \/ Len(last.ret.input) < Len(last.input)
           \/ /\ last.state.output_pending
              /\ Len(last.ret.written) = 1
        /\ Len(last.input) - Len(last.ret.input) <= max_code_units)

====
